---------------------------- MODULE Spec2Model ----------------------------
(***************************************************************************)
(* A model of the intrusive doubly-linked list of the SOS kernel           *)
(* (lib/sos_intrusive/src/list/mod.rs): List<T, N> with push/pop at both   *)
(* ends, and ListCursor with next / peek_next / remove / find_and_remove.  *)
(*                                                                         *)
(* A RawLink<N> is modelled as a number: 0 is RawLink::none(), and a node  *)
(* identity k in Nodes is RawLink::some(node k).  The prev and next fields *)
(* of every node (resident or not) are the functions prev and next.        *)
(***************************************************************************)
EXTENDS Integers, Sequences, FiniteSets, TLC

\* Number of distinct node objects the caller has to push.
NumNodes == 3

\* Pushes are made while len() is below this cap.
MaxLength == 3

\* Recorded runs make at most this many push calls.
MaxPushes == 5

Nodes == 1..NumNodes

\* RawLink::none()
NoLink == 0

VARIABLES
    head,        \* List.head   : RawLink<N>
    tail,        \* List.tail   : RawLink<N>
    length,      \* List.length : usize
    next,        \* next[n] : the next-Link field of node n
    prev,        \* prev[n] : the prev-Link field of node n
    owned,       \* nodes for which the caller holds an owning handle T
    cursor_live, \* a ListCursor borrowing the list exists
    current,     \* ListCursor.current : RawLink<N>
    last,        \* history: the last call, its argument (as a set of nodes) and its result
    pushes,      \* history: number of push_front/push_back calls performed
    pops,        \* history: number of pop_front/pop_back calls that returned an element
    seqIn,       \* history: nodes pushed since the list was last empty
    inKind,      \* history: "none", "front", "back" (all by that push) or "mixed"
    seqOut,      \* history: nodes popped since the last push
    outKind,     \* history: "none", "front", "back" (all by that pop) or "mixed"
    walk,        \* history: what the next calls returned, if the live cursor saw only those
    before,      \* history: the call made on the live cursor before the last one
    entry,       \* Entry.0 : u64, as the set of the positions of its 1 bits
    aborted,     \* an assert! of Entry has failed
    ecall        \* history: the last call on the Entry, its arguments and its result

listVars == <<head, tail, length, next, prev>>
runVars == <<pushes, pops, seqIn, inKind, seqOut, outKind>>
entryVars == <<entry, aborted, ecall>>
restVars == <<walk, before, entry, aborted, ecall>>
vars == <<head, tail, length, next, prev, owned, cursor_live, current,
          last, pushes, pops, seqIn, inKind, seqOut, outKind, walk, before,
          entry, aborted, ecall>>

\* The list as one value: the fields of List plus the link fields of the nodes.
ListState == [head |-> head, tail |-> tail, length |-> length,
              next |-> next, prev |-> prev]

-----------------------------------------------------------------------------
(* List *)

\* List::new
ListNew == [head |-> NoLink, tail |-> NoLink, length |-> 0,
            next |-> [n \in Nodes |-> NoLink], prev |-> [n \in Nodes |-> NoLink]]

\* List::len
Len_(s) == s.length

\* List::front
Front(s) == s.head

\* List::back
Back(s) == s.tail

\* List::is_empty
IsEmpty(s) == s.head = NoLink

\* List::push_front
PushFront(s, item) ==
    IF s.head = NoLink
    THEN [s EXCEPT !.next[item] = NoLink, !.prev[item] = NoLink,
                   !.tail = item, !.head = item, !.length = @ + 1]
    ELSE [s EXCEPT !.next[item] = s.head, !.prev[item] = NoLink,
                   !.prev[s.head] = item, !.head = item, !.length = @ + 1]

\* Faulty variant of push_back: links the item in at the head end.
PushBackAtFront(s, item) ==
    IF s.head = NoLink
    THEN [s EXCEPT !.next[item] = NoLink, !.prev[item] = NoLink,
                   !.tail = item, !.head = item, !.length = @ + 1]
    ELSE [s EXCEPT !.next[item] = s.head, !.prev[item] = NoLink,
                   !.prev[s.head] = item, !.head = item, !.length = @ + 1]

\* List::push_back
PushBack(s, item) ==
    IF s.tail = NoLink
    THEN [s EXCEPT !.next[item] = NoLink, !.prev[item] = NoLink,
                   !.head = item, !.tail = item, !.length = @ + 1]
    ELSE [s EXCEPT !.next[item] = NoLink, !.prev[item] = s.tail,
                   !.next[s.tail] = item, !.tail = item, !.length = @ + 1]

\* Faulty variant of pop_front: leaves the new head's prev-Link on the popped node.
PopFrontKeepPrev(s) ==
    IF s.head = NoLink
    THEN [st |-> s, ret |-> NoLink]
    ELSE LET h == s.head
             nx == s.next[h]
         IN  IF nx = NoLink
             THEN [st |-> [s EXCEPT !.head = NoLink, !.tail = NoLink,
                                    !.length = @ - 1],
                   ret |-> h]
             ELSE [st |-> [s EXCEPT !.head = nx, !.length = @ - 1],
                   ret |-> h]

\* List::pop_front: the list afterwards and the node returned (NoLink for None)
PopFront(s) ==
    IF s.head = NoLink
    THEN [st |-> s, ret |-> NoLink]
    ELSE LET h == s.head
             nx == s.next[h]
         IN  IF nx = NoLink
             THEN [st |-> [s EXCEPT !.head = NoLink, !.tail = NoLink,
                                    !.length = @ - 1],
                   ret |-> h]
             ELSE [st |-> [s EXCEPT !.prev[nx] = NoLink, !.head = nx,
                                    !.length = @ - 1],
                   ret |-> h]

\* Faulty variant of pop_back: does not decrement the count.
PopBackNoCount(s) ==
    IF s.tail = NoLink
    THEN [st |-> s, ret |-> NoLink]
    ELSE LET t == s.tail
             pv == s.prev[t]
         IN  IF pv = NoLink
             THEN [st |-> [s EXCEPT !.tail = NoLink, !.head = NoLink], ret |-> t]
             ELSE [st |-> [s EXCEPT !.next[pv] = NoLink, !.tail = pv], ret |-> t]

\* Faulty variant of pop_back: decrements the count whether or not a node was there.
PopBackAlwaysCounts(s) ==
    IF s.tail = NoLink
    THEN [st |-> [s EXCEPT !.length = @ - 1], ret |-> NoLink]
    ELSE LET t == s.tail
             pv == s.prev[t]
         IN  IF pv = NoLink
             THEN [st |-> [s EXCEPT !.tail = NoLink, !.head = NoLink,
                                    !.length = @ - 1],
                   ret |-> t]
             ELSE [st |-> [s EXCEPT !.next[pv] = NoLink, !.tail = pv,
                                    !.length = @ - 1],
                   ret |-> t]

\* List::pop_back
PopBack(s) ==
    IF s.tail = NoLink
    THEN [st |-> s, ret |-> NoLink]
    ELSE LET t == s.tail
             pv == s.prev[t]
         IN  IF pv = NoLink
             THEN [st |-> [s EXCEPT !.tail = NoLink, !.head = NoLink,
                                    !.length = @ - 1],
                   ret |-> t]
             ELSE [st |-> [s EXCEPT !.next[pv] = NoLink, !.tail = pv,
                                    !.length = @ - 1],
                   ret |-> t]

\* List::peek_front (resolves the tail link)
PeekFront(s) == s.tail

-----------------------------------------------------------------------------
(* ListCursor *)

\* Faulty variant of next: starts at the tail when current is absent.
CursorNextFromTail(s, c) ==
    IF c = NoLink
    THEN IF s.tail = NoLink
         THEN [cur |-> NoLink, ret |-> NoLink]
         ELSE [cur |-> s.tail, ret |-> s.tail]
    ELSE [cur |-> s.next[c], ret |-> s.next[c]]

\* Faulty variant of next: stays on the tail when there is no next node.
CursorNextSticky(s, c) ==
    IF c = NoLink
    THEN IF s.head = NoLink
         THEN [cur |-> NoLink, ret |-> NoLink]
         ELSE [cur |-> s.head, ret |-> s.head]
    ELSE IF s.next[c] = NoLink
    THEN [cur |-> c, ret |-> NoLink]
    ELSE [cur |-> s.next[c], ret |-> s.next[c]]

\* ListCursor::next: the new current link and the node returned
CursorNext(s, c) ==
    IF c = NoLink
    THEN IF s.head = NoLink
         THEN [cur |-> NoLink, ret |-> NoLink]
         ELSE [cur |-> s.head, ret |-> s.head]
    ELSE [cur |-> s.next[c], ret |-> s.next[c]]

\* Faulty variant of peek_next: reports nothing when current is absent.
PeekNextNoFront(s, c) == IF c = NoLink THEN NoLink ELSE s.next[c]

\* ListCursor::peek_next
PeekNext(s, c) == IF c = NoLink THEN Front(s) ELSE s.next[c]

\* Faulty variant of remove: does not rewrite the successor's prev-Link.
CursorRemoveNoBackLink(s, c) ==
    IF c = NoLink
    THEN PopFront(s)
    ELSE LET p == s.next[c]
         IN  IF p = NoLink
             THEN [st |-> s, ret |-> NoLink]
             ELSE LET taken == [s EXCEPT !.next[c] = NoLink]
                      n == taken.next[p]
                  IN  IF n = NoLink
                      THEN [st |-> [taken EXCEPT !.tail = c], ret |-> p]
                      ELSE [st |-> [taken EXCEPT !.next[c] = n], ret |-> p]

\* Faulty variant of remove: does not move the list's tail off a removed last node.
CursorRemoveKeepTail(s, c) ==
    IF c = NoLink
    THEN PopFront(s)
    ELSE LET p == s.next[c]
         IN  IF p = NoLink
             THEN [st |-> s, ret |-> NoLink]
             ELSE LET taken == [s EXCEPT !.next[c] = NoLink]
                      n == taken.next[p]
                  IN  IF n = NoLink
                      THEN [st |-> taken, ret |-> p]
                      ELSE [st |-> [taken EXCEPT !.prev[n] = c, !.next[c] = n],
                            ret |-> p]

\* Faulty variant of remove: leaves current's next-Link absent after a splice.
CursorRemoveNoRelink(s, c) ==
    IF c = NoLink
    THEN PopFront(s)
    ELSE LET p == s.next[c]
         IN  IF p = NoLink
             THEN [st |-> s, ret |-> NoLink]
             ELSE LET taken == [s EXCEPT !.next[c] = NoLink]
                      n == taken.next[p]
                  IN  IF n = NoLink
                      THEN [st |-> [taken EXCEPT !.tail = c], ret |-> p]
                      ELSE [st |-> [taken EXCEPT !.prev[n] = c], ret |-> p]

\* Faulty variant of remove: reports nothing to remove when current is absent.
CursorRemoveNoFront(s, c) ==
    IF c = NoLink
    THEN [st |-> s, ret |-> NoLink]
    ELSE LET p == s.next[c]
         IN  IF p = NoLink
             THEN [st |-> s, ret |-> NoLink]
             ELSE LET taken == [s EXCEPT !.next[c] = NoLink]
                      n == taken.next[p]
                  IN  IF n = NoLink
                      THEN [st |-> [taken EXCEPT !.tail = c], ret |-> p]
                      ELSE [st |-> [taken EXCEPT !.prev[n] = c, !.next[c] = n],
                            ret |-> p]

\* ListCursor::remove
CursorRemove(s, c) ==
    IF c = NoLink
    THEN PopFront(s)
    ELSE LET p == s.next[c]
         IN  IF p = NoLink
             THEN [st |-> s, ret |-> NoLink]
             ELSE LET taken == [s EXCEPT !.next[c] = NoLink]
                      n == taken.next[p]
                  IN  IF n = NoLink
                      THEN [st |-> [taken EXCEPT !.tail = c], ret |-> p]
                      ELSE [st |-> [taken EXCEPT !.prev[n] = c, !.next[c] = n],
                            ret |-> p]

\* ListCursor::find_and_remove with the predicate true exactly of the nodes in P.
\* fuel bounds the unfolding of the while loop; spun reports that it ran out.
\* seen lists the nodes the predicate was applied to, in the order of the calls.
RECURSIVE FindLoop(_, _, _, _)
FindLoop(s, c, P, fuel) ==
    IF PeekNext(s, c) = NoLink
    THEN [st |-> s, cur |-> c, ret |-> NoLink, spun |-> FALSE, seen |-> <<>>]
    ELSE IF fuel = 0
    THEN [st |-> s, cur |-> c, ret |-> NoLink, spun |-> TRUE, seen |-> <<>>]
    ELSE IF PeekNext(s, c) \in P
    THEN LET r == CursorRemove(s, c)
         IN  [st |-> r.st, cur |-> c, ret |-> r.ret, spun |-> FALSE,
              seen |-> <<PeekNext(s, c)>>]
    ELSE LET r == FindLoop(s, CursorNext(s, c).cur, P, fuel - 1)
         IN  [r EXCEPT !.seen = <<PeekNext(s, c)>> \o @]

\* Faulty variant of find_and_remove: removes the first node that fails the predicate.
RECURSIVE FindLoopInverted(_, _, _, _)
FindLoopInverted(s, c, P, fuel) ==
    IF PeekNext(s, c) = NoLink
    THEN [st |-> s, cur |-> c, ret |-> NoLink, spun |-> FALSE, seen |-> <<>>]
    ELSE IF fuel = 0
    THEN [st |-> s, cur |-> c, ret |-> NoLink, spun |-> TRUE, seen |-> <<>>]
    ELSE IF PeekNext(s, c) \notin P
    THEN LET r == CursorRemove(s, c)
         IN  [st |-> r.st, cur |-> c, ret |-> r.ret, spun |-> FALSE,
              seen |-> <<PeekNext(s, c)>>]
    ELSE LET r == FindLoopInverted(s, CursorNext(s, c).cur, P, fuel - 1)
         IN  [r EXCEPT !.seen = <<PeekNext(s, c)>> \o @]

FindAndRemoveInverted(s, c, P) == FindLoopInverted(s, c, P, NumNodes + 1)

\* Faulty variant of find_and_remove: starts its scan over from the head.
FindAndRemoveFromHead(s, c, P) == FindLoop(s, NoLink, P, NumNodes + 1)

\* Faulty variant of find_and_remove: steps onto the matching node before removing it.
FindAndRemoveAdvancing(s, c, P) ==
    LET r == FindLoop(s, c, P, NumNodes + 1)
    IN  IF r.ret = NoLink THEN r ELSE [r EXCEPT !.cur = r.ret]

FindAndRemove(s, c, P) == FindLoop(s, c, P, NumNodes + 1)

-----------------------------------------------------------------------------
(* Entry: a page table entry (src/arch/x86_64/memory/entry.rs).  A u64 is the *)
(* set of the positions of its 1 bits: | is \cup, & is \cap, !x is Word \ x.  *)

WordBits == 64
Word == 0..(WordBits - 1)

\* The bit positions of the flags of Flags.
PRESENT == 0
WRITABLE == 1
USER_ACCESSIBLE == 2
WRITE_THROUGH == 3
NO_CACHE == 4
ACCESSED == 5
DIRTY == 6
HUGE_PAGE == 7
GLOBAL == 8
NO_EXECUTE == 63

AllFlags == {PRESENT, WRITABLE, USER_ACCESSIBLE, WRITE_THROUGH, NO_CACHE,
             ACCESSED, DIRTY, HUGE_PAGE, GLOBAL, NO_EXECUTE}

\* 0x000fffff_fffff000: bits AddrLow to AddrHigh
AddrLow == 12
AddrHigh == 51
AddrMask == AddrLow..AddrHigh

\* Option<*mut u8>
NoFrame == [some |-> FALSE, addr |-> {}]
SomeFrame(a) == [some |-> TRUE, addr |-> a]

\* Entry::is_unused
IsUnused(e) == e = {}

\* Entry::flags (Flags::from_bits_truncate)
Flags(e) == e \cap AllFlags

\* Entry::is_huge
IsHuge(e) == HUGE_PAGE \in Flags(e)

\* Faulty variant of pointed_frame: returns the entry's value without masking it.
PointedFrameUnmasked(e) ==
    IF PRESENT \in Flags(e) THEN SomeFrame(e) ELSE NoFrame

\* Entry::pointed_frame
PointedFrame(e) ==
    IF PRESENT \in Flags(e) THEN SomeFrame(e \cap AddrMask) ELSE NoFrame

\* Entry::set: the entry afterwards, and whether the assert! failed
EntrySet(e, frame, flags) ==
    IF frame \cap (Word \ AddrMask) = {}
    THEN [entry |-> frame \cup flags, failed |-> FALSE]
    ELSE [entry |-> e, failed |-> TRUE]

-----------------------------------------------------------------------------
(* Walking the chain *)

\* Nodes met following next-Links from link k, at most fuel of them.
RECURSIVE WalkNext(_, _, _)
WalkNext(s, k, fuel) ==
    IF k = NoLink \/ fuel = 0 THEN <<>>
    ELSE <<k>> \o WalkNext(s, s.next[k], fuel - 1)

\* Nodes met following prev-Links from link k, at most fuel of them.
RECURSIVE WalkPrev(_, _, _)
WalkPrev(s, k, fuel) ==
    IF k = NoLink \/ fuel = 0 THEN <<>>
    ELSE <<k>> \o WalkPrev(s, s.prev[k], fuel - 1)

Forward(s) == WalkNext(s, s.head, NumNodes + 1)
Backward(s) == WalkPrev(s, s.tail, NumNodes + 1)

Range(q) == {q[i] : i \in 1..Len(q)}
Reverse(q) == [i \in 1..Len(q) |-> q[Len(q) + 1 - i]]
IsPrefix(p, q) == Len(p) <= Len(q) /\ \A i \in 1..Len(p) : p[i] = q[i]
NoDup(q) == \A i, j \in 1..Len(q) : q[i] = q[j] => i = j
\* q with its occurrences of x left out
Without(q, x) == SelectSeq(q, LAMBDA y : y # x)

\* The resident nodes: those reachable from head.
Resident(s) == Range(Forward(s))

-----------------------------------------------------------------------------
(* History bookkeeping *)

Call(op, arg, ret) == [op |-> op, arg |-> arg, ret |-> ret]

EntryCall(op, frame, flags, ret) ==
    [op |-> op, frame |-> frame, flags |-> flags, ret |-> ret]

\* No call yet.
NoCall == [op |-> "none", ret |-> NoLink]

\* The value of walk once the cursor has seen a call other than next, or has been
\* stepped beyond the first 'no value'.
Spoiled == <<-1>>

MergeKind(k, e) == IF k = "none" \/ k = e THEN e ELSE "mixed"

\* The run after a push of item at end e (the list before the push is ListState).
RecordPush(item, e) ==
    /\ pushes < MaxPushes
    /\ UNCHANGED restVars
    /\ pushes' = pushes + 1
    /\ pops' = pops
    /\ IF head = NoLink
       THEN seqIn' = <<item>> /\ inKind' = e /\ seqOut' = <<>> /\ outKind' = "none"
       ELSE IF inKind = "mixed" \/ seqOut # <<>>
       THEN seqIn' = <<>> /\ inKind' = "mixed" /\ seqOut' = <<>> /\ outKind' = "none"
       ELSE /\ seqIn' = Append(seqIn, item)
            /\ inKind' = MergeKind(inKind, e)
            /\ seqOut' = <<>>
            /\ outKind' = "none"

\* The run after a pop at end e that returned ret.
RecordPop(ret, e) ==
    /\ UNCHANGED restVars
    /\ pushes' = pushes
    /\ pops' = IF ret = NoLink THEN pops ELSE pops + 1
    /\ UNCHANGED <<seqIn, inKind>>
    /\ IF ret = NoLink \/ inKind = "mixed"
       THEN UNCHANGED <<seqOut, outKind>>
       ELSE seqOut' = Append(seqOut, ret) /\ outKind' = MergeKind(outKind, e)

SetList(s) ==
    /\ head' = s.head
    /\ tail' = s.tail
    /\ length' = s.length
    /\ next' = s.next
    /\ prev' = s.prev

-----------------------------------------------------------------------------
(* The program *)

Init ==
    /\ head = ListNew.head
    /\ tail = ListNew.tail
    /\ length = ListNew.length
    /\ next = ListNew.next
    /\ prev = ListNew.prev
    /\ owned = Nodes
    /\ cursor_live = FALSE
    /\ current = NoLink
    /\ last = Call("new", {}, NoLink)
    /\ pushes = 0
    /\ pops = 0
    /\ seqIn = <<>>
    /\ inKind = "none"
    /\ seqOut = <<>>
    /\ outKind = "none"
    /\ walk = <<>>
    /\ before = NoCall
    /\ entry = {}
    /\ aborted = FALSE
    /\ ecall = EntryCall("none", {}, {}, NoFrame)

\* The effect of a push of item at end e, leaving the list as s, on the program state.
Push(item, e, s) ==
    /\ ~cursor_live
    /\ item \in owned
    /\ length < MaxLength
    /\ SetList(s)
    /\ owned' = owned \ {item}
    /\ last' = Call(IF e = "front" THEN "push_front" ELSE "push_back", {item}, NoLink)
    /\ UNCHANGED <<cursor_live, current>>

\* The effect of a pop at end e with outcome r on the program state.
Pop(e, r) ==
    /\ ~cursor_live
    /\ SetList(r.st)
    /\ owned' = IF r.ret = NoLink THEN owned ELSE owned \cup {r.ret}
    /\ last' = Call(IF e = "front" THEN "pop_front" ELSE "pop_back", {}, r.ret)
    /\ UNCHANGED <<cursor_live, current>>

DoPushFront ==
    /\ \E item \in Nodes : Push(item, "front", PushFront(ListState, item))
    /\ UNCHANGED <<runVars, restVars>>

DoPushBack ==
    /\ \E item \in Nodes : Push(item, "back", PushBack(ListState, item))
    /\ UNCHANGED <<runVars, restVars>>

DoPopFront == Pop("front", PopFront(ListState)) /\ UNCHANGED <<runVars, restVars>>

DoPopBack == Pop("back", PopBack(ListState)) /\ UNCHANGED <<runVars, restVars>>

DoFront ==
    /\ ~cursor_live
    /\ last' = Call("front", {}, Front(ListState))
    /\ UNCHANGED <<listVars, owned, cursor_live, current, runVars, restVars>>

DoBack ==
    /\ ~cursor_live
    /\ last' = Call("back", {}, Back(ListState))
    /\ UNCHANGED <<listVars, owned, cursor_live, current, runVars, restVars>>

DoPeekFront ==
    /\ ~cursor_live
    /\ last' = Call("peek_front", {}, PeekFront(ListState))
    /\ UNCHANGED <<listVars, owned, cursor_live, current, runVars, restVars>>

\* List::cursor
StepCursor ==
    /\ ~cursor_live
    /\ cursor_live' = TRUE
    /\ current' = NoLink
    /\ last' = Call("cursor", {}, NoLink)
    /\ UNCHANGED <<listVars, owned>>

DoCursor == StepCursor /\ UNCHANGED <<runVars, restVars>>

\* The cursor goes out of scope, ending its borrow of the list.
StepDropCursor ==
    /\ cursor_live
    /\ cursor_live' = FALSE
    /\ current' = NoLink
    /\ last' = Call("drop", {}, NoLink)
    /\ UNCHANGED <<listVars, owned>>

DoDropCursor == StepDropCursor /\ UNCHANGED <<runVars, restVars>>

StepNext ==
    /\ cursor_live
    /\ LET r == CursorNext(ListState, current)
       IN  /\ current' = r.cur
           /\ last' = Call("next", {}, r.ret)
    /\ UNCHANGED <<listVars, owned, cursor_live>>

DoNext == StepNext /\ UNCHANGED <<runVars, restVars>>

StepPeekNext ==
    /\ cursor_live
    /\ last' = Call("peek_next", {}, PeekNext(ListState, current))
    /\ UNCHANGED <<listVars, owned, cursor_live, current>>

DoPeekNext == StepPeekNext /\ UNCHANGED <<runVars, restVars>>

StepRemove ==
    /\ cursor_live
    /\ LET r == CursorRemove(ListState, current)
       IN  /\ SetList(r.st)
           /\ owned' = IF r.ret = NoLink THEN owned ELSE owned \cup {r.ret}
           /\ last' = Call("remove", {}, r.ret)
    /\ UNCHANGED <<cursor_live, current>>

DoRemove == StepRemove /\ UNCHANGED <<runVars, restVars>>

\* The predicate is applied to resident nodes only, so the predicates tried are
\* the sets of resident nodes.
StepFindAndRemove ==
    /\ cursor_live
    /\ \E P \in SUBSET Resident(ListState) :
         LET r == FindAndRemove(ListState, current, P)
         IN  /\ SetList(r.st)
             /\ current' = r.cur
             /\ owned' = IF r.ret = NoLink THEN owned ELSE owned \cup {r.ret}
             /\ last' = Call("find_and_remove", P, r.ret)
    /\ UNCHANGED cursor_live

DoFindAndRemove == StepFindAndRemove /\ UNCHANGED <<runVars, restVars>>

Next ==
    \/ DoPushFront
    \/ DoPushBack
    \/ DoPopFront
    \/ DoPopBack
    \/ DoFront
    \/ DoBack
    \/ DoPeekFront
    \/ DoCursor
    \/ DoDropCursor
    \/ DoNext
    \/ DoPeekNext
    \/ DoRemove
    \/ DoFindAndRemove

\* Every operation of List and ListCursor, in any order the borrow rules allow.
Spec == Init /\ [][Next]_vars

-----------------------------------------------------------------------------
(* The list used through push and pop alone, with the run of calls recorded *)

RunPushFront ==
    \E item \in Nodes :
        /\ Push(item, "front", PushFront(ListState, item))
        /\ RecordPush(item, "front")

RunPushBack ==
    \E item \in Nodes :
        /\ Push(item, "back", PushBack(ListState, item))
        /\ RecordPush(item, "back")

RunPopFront ==
    /\ Pop("front", PopFront(ListState))
    /\ RecordPop(PopFront(ListState).ret, "front")

RunPopBack ==
    /\ Pop("back", PopBack(ListState))
    /\ RecordPop(PopBack(ListState).ret, "back")

NextList ==
    \/ RunPushFront
    \/ RunPushBack
    \/ RunPopFront
    \/ RunPopBack

SpecList == Init /\ [][NextList]_vars

-----------------------------------------------------------------------------
(* The list and its cursor with the cursor's calls recorded: what the next  *)
(* calls returned, and the call before the last                              *)

\* The history after a call on the live cursor (last' is the call just made).
RecordCall ==
    /\ before' = IF last.op \in {"next", "peek_next", "remove", "find_and_remove"}
                 THEN [op |-> last.op, ret |-> last.ret]
                 ELSE NoCall
    /\ walk' = IF /\ last'.op = "next"
                  /\ walk # Spoiled
                  /\ Len(walk) <= Len(Forward(ListState))
               THEN Append(walk, last'.ret)
               ELSE Spoiled
    /\ UNCHANGED <<runVars, entryVars>>

\* A new cursor, or none, has no history.
ForgetCalls == walk' = <<>> /\ before' = NoCall /\ UNCHANGED <<runVars, entryVars>>

TrailCursor == StepCursor /\ ForgetCalls

TrailDropCursor == StepDropCursor /\ ForgetCalls

TrailNext == StepNext /\ RecordCall

TrailPeekNext == StepPeekNext /\ RecordCall

TrailRemove == StepRemove /\ RecordCall

TrailFindAndRemove == StepFindAndRemove /\ RecordCall

NextCursor ==
    \/ DoPushFront
    \/ DoPushBack
    \/ DoPopFront
    \/ DoPopBack
    \/ TrailCursor
    \/ TrailDropCursor
    \/ TrailNext
    \/ TrailPeekNext
    \/ TrailRemove
    \/ TrailFindAndRemove

SpecCursor == Init /\ [][NextCursor]_vars

-----------------------------------------------------------------------------
(* One page table entry, set and read *)

\* The addresses tried as frames: every combination of the lowest and highest bit
\* of the address mask, the bits next to them outside it, and bit 0.
FrameChoices == SUBSET {PRESENT, AddrLow - 1, AddrLow, AddrHigh, AddrHigh + 1}

\* The flag sets tried.
FlagChoices == SUBSET {PRESENT, WRITABLE, NO_EXECUTE}

listSide == <<listVars, owned, cursor_live, current, last, runVars, walk, before>>

DoEntrySet ==
    /\ ~aborted
    /\ \E frame \in FrameChoices, flags \in FlagChoices :
         LET r == EntrySet(entry, frame, flags)
         IN  /\ entry' = r.entry
             /\ aborted' = r.failed
             /\ ecall' = EntryCall("set", frame, flags, NoFrame)
    /\ UNCHANGED listSide

\* Entry::set_unused
DoEntrySetUnused ==
    /\ ~aborted
    /\ entry' = {}
    /\ ecall' = EntryCall("set_unused", {}, {}, NoFrame)
    /\ UNCHANGED <<aborted, listSide>>

DoEntryFlags ==
    /\ ~aborted
    /\ ecall' = EntryCall("flags", {}, Flags(entry), NoFrame)
    /\ UNCHANGED <<entry, aborted, listSide>>

DoEntryPointedFrame ==
    /\ ~aborted
    /\ ecall' = EntryCall("pointed_frame", {}, {}, PointedFrame(entry))
    /\ UNCHANGED <<entry, aborted, listSide>>

NextEntry ==
    \/ DoEntrySet
    \/ DoEntrySetUnused
    \/ DoEntryFlags
    \/ DoEntryPointedFrame

SpecEntry == Init /\ [][NextEntry]_vars

-----------------------------------------------------------------------------
(* Properties *)

\* The nodes a cursor at c has still to visit: those from peek_next to the tail.
Ahead(s, c) == Range(WalkNext(s, PeekNext(s, c), NumNodes + 1))

\* t has the head, tail and count of s and the same links on every node resident in s.
SameList(t, s) ==
    /\ t.head = s.head
    /\ t.tail = s.tail
    /\ t.length = s.length
    /\ \A x \in Resident(s) : t.next[x] = s.next[x] /\ t.prev[x] = s.prev[x]

Returning == {"pop_front", "pop_back", "remove", "find_and_remove"}

\* C1: in every sequence of push_front, push_back, pop_front and pop_back calls on
\* a list that starts empty, after each call len() is the number of pushes minus the
\* number of pops that returned an element, and is_empty() holds exactly when
\* len() is 0.
C1_LenIsPushesMinusPops ==
    /\ Len_(ListState) = pushes - pops
    /\ IsEmpty(ListState) <=> Len_(ListState) = 0

\* C1 witness: after three pushes and two successful pops, the last one a pop_back.
C1_Witness ==
    /\ pushes = 3
    /\ pops = 2
    /\ last.op = "pop_back"
    /\ last.ret # NoLink

\* C2: after any sequence of list and cursor operations the chain is doubly-link
\* consistent: head has no prev, tail has no next, B.prev is A whenever A.next is B
\* for a resident A, and the walk from head by next-Links is the reverse of the walk
\* from tail by prev-Links, ends at tail and meets no node twice.
C2_DoublyLinked ==
    LET s == ListState
        f == Forward(s)
    IN  /\ s.head # NoLink => s.prev[s.head] = NoLink
        /\ s.tail # NoLink => s.next[s.tail] = NoLink
        /\ \A a \in Resident(s) : s.next[a] # NoLink => s.prev[s.next[a]] = a
        /\ f = Reverse(Backward(s))
        /\ NoDup(f)
        /\ IF f = <<>> THEN s.tail = NoLink ELSE f[Len(f)] = s.tail

\* C2 witness: the cursor has just spliced out a node that had a successor.
C2_Witness ==
    /\ last.op = "remove"
    /\ last.ret # NoLink
    /\ current # NoLink
    /\ next[current] # NoLink
    /\ next[last.ret] = next[current]

\* C3: len() is the number of nodes met from head by next-Links and the number met
\* from tail by prev-Links, after any sequence of list and cursor operations.
C3_LenIsChainLength ==
    /\ Len_(ListState) = Len(Forward(ListState))
    /\ Len_(ListState) = Len(Backward(ListState))

\* C4: 'head is absent', 'tail is absent' and 'count is zero' are all true or all
\* false in every reachable state.
C4_EmptyAgree ==
    /\ (head = NoLink) <=> (tail = NoLink)
    /\ (tail = NoLink) <=> (length = 0)

\* C5: find_and_remove on a fresh cursor, with exactly one resident node satisfying
\* the predicate, returns that node, leaves the others in their order and makes
\* len() one less.
C5_FindAndRemoveOne ==
    [][ ( /\ last'.op = "find_and_remove"
          /\ current = NoLink
          /\ Cardinality(last'.arg \cap Resident(ListState)) = 1 )
        => \E x \in last'.arg \cap Resident(ListState) :
              /\ last'.ret = x
              /\ Forward(ListState') = Without(Forward(ListState), x)
              /\ Len_(ListState') = Len_(ListState) - 1 ]_vars

\* C6: when no node from the cursor's position to the tail satisfies the predicate,
\* find_and_remove reports 'not found' and head, tail, count and every node's links
\* are as before the call.
C6_NotFoundLeavesList ==
    [][ ( /\ last'.op = "find_and_remove"
          /\ last'.arg \cap Ahead(ListState, current) = {} )
        => ( /\ last'.ret = NoLink
             /\ ListState' = ListState ) ]_vars

\* C6 witness: a scan of a list of two or more nodes ran to the tail and found nothing,
\* though the predicate holds of a node behind the cursor's starting position.
C6_Witness ==
    /\ last.op = "find_and_remove"
    /\ last.ret = NoLink
    /\ last.arg # {}
    /\ Len(Forward(ListState)) >= 2
    /\ current = tail

\* C7: from an empty list, push_back of N distinct nodes then pop_front calls return
\* them in push order; push_front then pop_front, and push_back then pop_back,
\* return them in reverse push order.
C7_Fifo ==
    /\ (inKind = "back" /\ outKind = "front") => IsPrefix(seqOut, seqIn)
    /\ (inKind = "front" /\ outKind = "front") => IsPrefix(seqOut, Reverse(seqIn))
    /\ (inKind = "back" /\ outKind = "back") => IsPrefix(seqOut, Reverse(seqIn))

\* C7 witness: three nodes pushed at the back have all been popped at the front.
C7_Witness ==
    /\ inKind = "back"
    /\ outKind = "front"
    /\ Len(seqIn) = 3
    /\ Len(seqOut) = 3
    /\ head = NoLink

\* C8: from any list state, pushing a node at one end and popping at once from
\* the same end returns that node and restores head, tail, count and the links of
\* every resident node.
C8_PushPopRoundTrip ==
    \A n \in owned :
        LET f == PopFront(PushFront(ListState, n))
            b == PopBack(PushBack(ListState, n))
        IN  /\ f.ret = n
            /\ SameList(f.st, ListState)
            /\ b.ret = n
            /\ SameList(b.st, ListState)

\* C8 witness: a node pushed at the front of a non-empty list was popped by the very
\* next call, a pop_front.
C8_Witness ==
    /\ last.op = "pop_front"
    /\ inKind = "front"
    /\ Len(seqIn) >= 2
    /\ seqOut = <<seqIn[Len(seqIn)]>>
    /\ last.ret = seqIn[Len(seqIn)]
    /\ head # NoLink

\* C9: on an empty list pop_front, pop_back, front, back, cursor remove and cursor
\* next report 'no value' and leave head absent, tail absent and the count as it
\* was, never below zero.
C9_EmptyReportsNone ==
    [][ ( /\ IsEmpty(ListState)
          /\ last'.op \in {"pop_front", "pop_back", "front", "back", "remove", "next"} )
        => ( /\ last'.ret = NoLink
             /\ head' = NoLink
             /\ tail' = NoLink
             /\ length' = length
             /\ length' >= 0 ) ]_vars

\* C9 witness: pop_back has just reported 'no value' on a list emptied after use.
C9_Witness ==
    /\ last.op = "pop_back"
    /\ last.ret = NoLink
    /\ head = NoLink
    /\ \E n \in Nodes : next[n] # NoLink

\* C10: every node is either resident or held by the caller, never both and never
\* neither; a node the caller holds, in particular one just handed back by pop_front,
\* pop_back or a cursor removal, is not pointed to by head, tail or a link of a
\* resident node.
C10_Ownership ==
    LET res == Resident(ListState)
    IN  /\ owned \cap res = {}
        /\ owned \cup res = Nodes
        /\ (last.op \in Returning /\ last.ret # NoLink) => last.ret \in owned
        /\ \A o \in owned :
              /\ head # o
              /\ tail # o
              /\ \A r \in res : next[r] # o /\ prev[r] # o

\* C10 witness: the cursor has just handed back the tail of a list, one node staying.
C10_Witness ==
    /\ last.op = "remove"
    /\ last.ret # NoLink
    /\ current # NoLink
    /\ tail = current
    /\ last.ret \in owned

\* The nodes a cursor at c has still to visit, in the order it visits them.
AheadSeq(s, c) == WalkNext(s, PeekNext(s, c), NumNodes + 1)

\* The nodes a cursor at c has passed: those from head up to current.
Behind(s, c) == Resident(s) \ Range(AheadSeq(s, c))

\* C12: with current absent, ListCursor::remove does what List::pop_front does from
\* the same list state: the same node returned, the same head, tail, count and links.
C12_RemoveAtStartIsPopFront ==
    [][ ( /\ last'.op = "remove"
          /\ current = NoLink )
        => ( /\ last'.ret = PopFront(ListState).ret
             /\ ListState' = PopFront(ListState).st ) ]_vars

\* C12 witness: a cursor with current absent has just removed the head of a list of
\* two or more nodes.
C12_Witness ==
    /\ last.op = "remove"
    /\ current = NoLink
    /\ last.ret # NoLink
    /\ next[last.ret] = head
    /\ head # NoLink

\* C17: find_and_remove ends within one pass: the predicate is applied to the nodes
\* ahead of the cursor in list order, to none twice and to none behind the cursor's
\* starting position, and the pass stops at the first node that satisfies it.
C17_SinglePass ==
    [][ last'.op = "find_and_remove"
        => LET r == FindAndRemove(ListState, current, last'.arg)
               k == Len(r.seen)
           IN  /\ ~r.spun
               /\ last'.ret = r.ret
               /\ IsPrefix(r.seen, AheadSeq(ListState, current))
               /\ NoDup(r.seen)
               /\ Range(r.seen) \cap Behind(ListState, current) = {}
               /\ \A i \in 1..(k - 1) : r.seen[i] \notin last'.arg
               /\ IF r.ret = NoLink
                  THEN /\ r.seen = AheadSeq(ListState, current)
                       /\ Range(r.seen) \cap last'.arg = {}
                  ELSE /\ k >= 1
                       /\ r.seen[k] = r.ret
                       /\ r.ret \in last'.arg ]_vars

\* C17 witness: a scan that went past the head stopped at the first of two matching
\* nodes; the second, right after the cursor, is still resident.
C17_Witness ==
    /\ last.op = "find_and_remove"
    /\ last.ret # NoLink
    /\ current # NoLink
    /\ next[current] \in last.arg

\* C18: the cursor's current link is absent or points to a node still reachable from
\* head, never to a node handed back to the caller.
C18_CursorOnResident ==
    /\ current # NoLink => current \in Resident(ListState)
    /\ current \notin owned

\* C18 witness: the cursor stands on a node after find_and_remove handed one back.
C18_Witness ==
    /\ cursor_live
    /\ current # NoLink
    /\ last.op = "find_and_remove"
    /\ last.ret # NoLink

\* C14: peek_front borrows the element at the head end: it returns the node front()
\* returns, and nothing when the list is empty.
C14_PeekFrontIsFront ==
    last.op = "peek_front" => last.ret = Front(ListState)

\* C15: on a list holding exactly one node, front() and back() are that node, and a
\* pop from either end returns it and leaves head absent, tail absent and count zero.
C15_SingleNode ==
    [][ Len(Forward(ListState)) = 1
        => ( /\ Front(ListState) # NoLink
             /\ Front(ListState) = Back(ListState)
             /\ last'.op \in {"pop_front", "pop_back"}
                  => ( /\ last'.ret = Front(ListState)
                       /\ head' = NoLink
                       /\ tail' = NoLink
                       /\ length' = 0 ) ) ]_vars

\* C11: remove returns the node peek_next reports just before the call (nothing when
\* it reports nothing) and leaves current where it is; a second remove right after
\* returns the node that followed the first one removed.
C11_RemoveTakesPeeked ==
    [][ last'.op = "remove"
        => ( /\ last'.ret = PeekNext(ListState, current)
             /\ current' = current
             /\ (last.op = "peek_next" => last'.ret = last.ret)
             /\ (last.op = "remove" /\ last.ret # NoLink)
                  => last'.ret = next[last.ret] ) ]_vars

\* C11 witness: two removes in a row at a cursor standing on a node, each handing a
\* node back.
C11_Witness ==
    /\ before.op = "remove"
    /\ before.ret # NoLink
    /\ last.op = "remove"
    /\ last.ret # NoLink
    /\ current # NoLink
    /\ next[before.ret] = last.ret

\* C13: peek_next returns what a next call made right after it returns, and changes
\* neither the cursor's current position nor the list.
C13_PeekIsNext ==
    [][ /\ last'.op = "peek_next"
          => ( /\ current' = current
               /\ ListState' = ListState
               /\ last'.ret = CursorNext(ListState, current).ret )
        /\ (last.op = "peek_next" /\ last'.op = "next")
          => last'.ret = last.ret ]_vars

\* C13 witness: next has just returned the node that peek_next reported before it,
\* from a cursor that stood on a node.
C13_Witness ==
    /\ before.op = "peek_next"
    /\ before.ret # NoLink
    /\ last.op = "next"
    /\ last.ret = before.ret
    /\ prev[current] # NoLink

\* C16: from a fresh cursor on a list of n nodes, the first n next calls return the
\* resident nodes in head-to-tail order and the next one returns nothing; next
\* changes neither head, tail, count nor any node's links.
C16_NextWalksList ==
    [][ last'.op = "next"
        => ( /\ ListState' = ListState
             /\ walk' # Spoiled
                  => IsPrefix(walk', Append(Forward(ListState), NoLink)) ) ]_vars

\* C16 witness: four next calls on a fresh cursor over three nodes, the last
\* returning nothing.
C16_Witness ==
    /\ last.op = "next"
    /\ last.ret = NoLink
    /\ Len(Forward(ListState)) = 3
    /\ walk = Append(Forward(ListState), NoLink)

\* C19: once next has returned nothing at the end of a non-empty list, current is
\* absent, so the next call after it returns the head again and a remove call
\* removes the head, as pop_front does.
C19_PastEndIsBeforeFirst ==
    [][ ( /\ cursor_live
          /\ last.op = "next"
          /\ last.ret = NoLink
          /\ ~IsEmpty(ListState) )
        => ( /\ current = NoLink
             /\ last'.op = "next"
                  => (last'.ret = Front(ListState) /\ current' = Front(ListState))
             /\ last'.op = "remove"
                  => ( /\ last'.ret = Front(ListState)
                       /\ ListState' = PopFront(ListState).st ) ) ]_vars

\* C19 witness: after next returned nothing on a list of two or more nodes, remove
\* handed back the node that was the head.
C19_Witness ==
    /\ before.op = "next"
    /\ before.ret = NoLink
    /\ last.op = "remove"
    /\ last.ret # NoLink
    /\ next[last.ret] = head
    /\ head # NoLink

\* C20: Entry::set(frame, flags) fails its assertion and leaves the entry as it was
\* whenever frame has a bit outside 0x000fffff_fffff000; otherwise the entry becomes
\* frame | flags, flags() then contains the given flags, and pointed_frame() then
\* returns frame if PRESENT is among the flags and nothing if it is not.
C20_EntrySet ==
    [][ ecall'.op = "set"
        => IF \E b \in ecall'.frame : b < 12 \/ b > 51
           THEN aborted' /\ entry' = entry
           ELSE /\ ~aborted'
                /\ entry' = ecall'.frame \cup ecall'.flags
                /\ ecall'.flags \subseteq Flags(entry')
                /\ PointedFrame(entry') = IF PRESENT \in ecall'.flags
                                          THEN SomeFrame(ecall'.frame)
                                          ELSE NoFrame ]_vars

\* C20 witness: set has stored a frame with the lowest and highest address bits
\* together with PRESENT and NO_EXECUTE, and pointed_frame gives the frame back.
C20_Witness ==
    /\ ecall.op = "set"
    /\ ~aborted
    /\ ecall.frame = {AddrLow, AddrHigh}
    /\ ecall.flags = {PRESENT, NO_EXECUTE}
    /\ PointedFrame(entry) = SomeFrame(ecall.frame)

=============================================================================
